---- MODULE Spec2Model ----
(***************************************************************************)
(* Vibe-similarity recommendation pipeline and Spotify credential          *)
(* lifecycle of MAIA-Entertainment-Spring-25.                              *)
(*                                                                         *)
(* Python floats are modelled as exact numbers: extracted features are     *)
(* integers (fixed-point readings), a mean s / n is the rational           *)
(* [num |-> s, den |-> n], and a cosine similarity dot / sqrt(na * nb) is   *)
(* kept symbolically as [dot |-> dot, nn |-> na * nb] and compared by       *)
(* cross-multiplication.  Floating-point rounding is not modelled.         *)
(***************************************************************************)
EXTENDS Integers, Sequences, FiniteSets, TLC

VARIABLES
    studentTracks,  \* STUDENT_TRACKS: the configured seed tracks
    featureCache,   \* _STUDENT_FEATURE_CACHE: seed id -> features, None if absent
    resp,           \* response of the handler that ran last, NoResp once delivered
    net,            \* network calls the last handler made, in order
    hist,           \* what the last handler saw: cache before, fetch outcomes
    now,            \* time.time(), in ticks of 1 / TicksPerSecond seconds
    store,          \* user_tokens table: spotify_user_id -> committed row
    calls,          \* per request thread: position and locals of its handler
    issued,         \* access tokens the token endpoint has issued so far
    requests,       \* authorized requests received so far
    commits,        \* db.commit() calls that have written user_tokens so far
    fetchers        \* per request thread: its get_features_for_student_track call

pipelineVars == <<studentTracks, featureCache, resp, net, hist>>
credVars == <<now, store, calls, issued, requests, commits>>
vars == <<studentTracks, featureCache, resp, net, hist,
          now, store, calls, issued, requests, commits, fetchers>>

\* ------------------------------------------------------------------ bounds

MaxSeeds == 3

\* ------------------------------------------------------------ Python values

None == [kind |-> "None"]
\* an exception leaving a call
Raised == [kind |-> "raise"]
NoResp == [op |-> "none"]
NoHist == [op |-> "none"]

\* str.lower() on the labels the model uses
Lower(s) ==
    CASE s = "Focus" -> "focus"
      [] s = "FOCUS" -> "focus"
      [] s = "Mellow" -> "mellow"
      [] s = "Epic" -> "epic"
      [] OTHER -> s

\* truth value of a dict-or-None (`if feats:`)
Truthy(d) == d # None /\ DOMAIN d # {}

RECURSIVE SumSeq(_)
SumSeq(s) == IF s = <<>> THEN 0 ELSE Head(s) + SumSeq(Tail(s))

\* ------------------------------------------------------- credential store

TicksPerSecond == 2
\* `- 30` in ensure_valid_token
SafetyMargin == 30
\* stop_after_attempt(3), wait_fixed(1) on refresh_access_token
RetryAttempts == 3
RetryWait == 1
\* refreshed.get("expires_in", 3600)
DefaultExpiresIn == 3600

\* request threads of the server
Procs == {"t1", "t2"}
\* spotify_user_id values with a row in user_tokens
Users == {"alice"}

\* a thread between requests
IdleCall ==
    [pc |-> "idle", route |-> "", uid |-> "", user |-> None, entry |-> None, api |-> <<>>,
     outcomes |-> <<>>, refreshed |-> None, writes |-> 0, committed |-> None,
     commitNo |-> 0, reloadNo |-> 0]

\* the row /callback stored: token 0, expiring `expires_at` seconds after time 0
UserToken(spotify_user_id, expires_at) ==
    [spotify_user_id |-> spotify_user_id, access_token |-> 0,
     refresh_token |-> "refresh", token_scope |-> "playlist-modify-private",
     token_expires_at |-> expires_at]

\* a thread that is not in get_features_for_student_track
IdleFetcher ==
    [pc |-> "idle", track_id |-> 0, miss |-> FALSE, feats |-> None, value |-> None,
     wrote |-> FALSE, served |-> 0]

CredAtRest(expires_at) ==
    /\ now = 0
    /\ store = [u \in Users |-> UserToken(u, expires_at)]
    /\ calls = [p \in Procs |-> IdleCall]
    /\ issued = 0
    /\ requests = 0
    /\ commits = 0

\* ------------------------------------------------------------------- audio

\* sr: the sample rate both extractors decode at
SampleRate == 22050

\* Readings librosa takes from a decoded clip (fixed-point integers).
MeasA == [tempo |-> 8, rms |-> 2, zcr |-> 1, centroid |-> 3, bandwidth |-> 4,
          energy |-> 3, valence |-> 4, acousticness |-> 6, danceability |-> 5]
MeasB == [tempo |-> 10, rms |-> 4, zcr |-> 2, centroid |-> 5, bandwidth |-> 6,
          energy |-> 9, valence |-> 6, acousticness |-> 2, danceability |-> 7]

\* What an HTTP GET of an audio URL yields: an error (status, timeout), or bytes
\* that decode or not, to `size` samples.
NetFail == [kind |-> "error"]
ClipCorrupt == [kind |-> "audio", decodable |-> FALSE, size |-> 0, meas |-> MeasA]
ClipEmpty == [kind |-> "audio", decodable |-> TRUE, size |-> 0, meas |-> MeasA]
ClipShort == [kind |-> "audio", decodable |-> TRUE, size |-> 11025, meas |-> MeasA]
ClipA == [kind |-> "audio", decodable |-> TRUE, size |-> 661500, meas |-> MeasA]
ClipB == [kind |-> "audio", decodable |-> TRUE, size |-> 661500, meas |-> MeasB]

AudioClips == {ClipCorrupt, ClipEmpty, ClipShort, ClipA, ClipB}
FetchOutcomes == {NetFail} \cup AudioClips

\* ------------------------------------------------- student_tracks.py

SeedIds == 1..MaxSeeds
SeedVibes == {"Focus", "mellow"}
RequestVibes == {"focus", "Mellow", "jazz"}

\* The seed lists the model runs with: one track per id, any labelling.
SeedConfigs == {[i \in SeedIds |-> [id |-> i, vibe |-> v[i]]] : v \in [SeedIds -> SeedVibes]}

get_student_tracks_for_vibe(vibe) ==
    SelectSeq(studentTracks, LAMBDA t : Lower(t.vibe) = Lower(vibe))

\* student_tracks.extract_features_from_audio_bytes: the 5-key raw-spectral
\* dict, or Raised (librosa.load fails, or the signal is empty).
student_extract_features_from_audio_bytes(clip) ==
    IF ~clip.decodable THEN Raised
    ELSE IF clip.size = 0 THEN Raised
    ELSE [tempo |-> clip.meas.tempo, energy |-> clip.meas.rms, zcr |-> clip.meas.zcr,
          centroid |-> clip.meas.centroid, bandwidth |-> clip.meas.bandwidth]

\* get_features_for_student_track against cache `cache`, the GET of the seed's
\* audio_url yielding `outcome`: the value returned, the cache after, the calls made.
\* get_features_for_student_track without the cache lookup
FetchIgnoringCache(cache, track_id, outcome) ==
    LET feats == IF outcome.kind = "error" THEN Raised
                 ELSE student_extract_features_from_audio_bytes(outcome)
    IN  IF feats = Raised
        THEN [value |-> None, cache |-> cache, net |-> <<"seed_audio">>]
        ELSE [value |-> feats,
              cache |-> [cache EXCEPT ![track_id] = feats],
              net |-> <<"seed_audio">>]

get_features_for_student_track(cache, track_id, outcome) ==
    IF cache[track_id] # None
    THEN [value |-> cache[track_id], cache |-> cache, net |-> <<>>]
    ELSE LET feats == IF outcome.kind = "error" THEN Raised
                      ELSE student_extract_features_from_audio_bytes(outcome)
         IN  IF feats = Raised
             THEN [value |-> None, cache |-> cache, net |-> <<"seed_audio">>]
             ELSE [value |-> feats,
                   cache |-> [cache EXCEPT ![track_id] = feats],
                   net |-> <<"seed_audio">>]

\* the loop of get_reference_features_for_vibe over the matching tracks
RECURSIVE CollectFeatures(_, _, _, _)
CollectFeatures(candidates, i, fetch, acc) ==
    IF i > Len(candidates) THEN acc
    ELSE LET t == candidates[i]
             r == get_features_for_student_track(acc.cache, t.id, fetch[t.id])
         IN  CollectFeatures(candidates, i + 1, fetch,
                 [cache |-> r.cache,
                  feature_list |-> IF Truthy(r.value)
                                   THEN Append(acc.feature_list, r.value)
                                   ELSE acc.feature_list,
                  net |-> acc.net \o r.net])

RefKeys == {"tempo", "energy", "zcr", "centroid", "bandwidth"}

DictGet(f, k, default) == IF k \in DOMAIN f THEN f[k] ELSE default

\* avg[k] = s / n over the collected vectors
MeanOverAllMatching(feature_list, candidates) ==
    [k \in RefKeys |->
        [num |-> SumSeq([j \in 1..Len(feature_list) |-> DictGet(feature_list[j], k, 0)]),
         den |-> Len(candidates)]]

MeanOf(feature_list, candidates) ==
    [k \in RefKeys |->
        [num |-> SumSeq([j \in 1..Len(feature_list) |-> DictGet(feature_list[j], k, 0)]),
         den |-> Len(feature_list)]]

\* get_reference_features_for_vibe: value (None or the mean), cache after, calls.
ReferenceNoEmptyCheck(vibe, cache, fetch) ==
    LET candidates == get_student_tracks_for_vibe(vibe)
        acc == CollectFeatures(candidates, 1, fetch,
                   [cache |-> cache, feature_list |-> <<>>, net |-> <<>>])
    IN  IF candidates = <<>>
        THEN [value |-> None, cache |-> cache, net |-> <<>>]
        ELSE [value |-> MeanOf(acc.feature_list, candidates),
              cache |-> acc.cache, net |-> acc.net]

get_reference_features_for_vibe(vibe, cache, fetch) ==
    LET candidates == get_student_tracks_for_vibe(vibe)
        acc == CollectFeatures(candidates, 1, fetch,
                   [cache |-> cache, feature_list |-> <<>>, net |-> <<>>])
    IN  IF candidates = <<>>
        THEN [value |-> None, cache |-> cache, net |-> <<>>]
        ELSE IF acc.feature_list = <<>>
        THEN [value |-> None, cache |-> acc.cache, net |-> acc.net]
        ELSE [value |-> MeanOf(acc.feature_list, candidates),
              cache |-> acc.cache, net |-> acc.net]

\* ------------------------------------------------------ exact arithmetic

Rat(n) == [num |-> n, den |-> 1]
RZero == Rat(0)
RAdd(x, y) ==
    IF x.den = y.den THEN [num |-> x.num + y.num, den |-> x.den]
    ELSE [num |-> x.num * y.den + y.num * x.den, den |-> x.den * y.den]
RMul(x, y) == [num |-> x.num * y.num, den |-> x.den * y.den]
RLess(x, y) == x.num * y.den < y.num * x.den

\* ------------------------------------------------------ audio_features.py

\* audio_features.extract_features_from_audio_bytes: the 6-key semantic dict,
\* or None (decode failure, fewer than sr samples).
extract_features_from_audio_bytes(clip) ==
    IF ~clip.decodable THEN None
    ELSE IF clip.size < SampleRate THEN None
    ELSE [tempo |-> clip.meas.tempo, energy |-> clip.meas.energy,
          valence |-> clip.meas.valence, acousticness |-> clip.meas.acousticness,
          danceability |-> clip.meas.danceability, instrumentalness |-> 0]

\* extract_features_from_url: value and the calls made
extract_features_from_url(url, outcome) ==
    IF url = "" THEN [value |-> None, net |-> <<>>]
    ELSE IF outcome.kind = "error" THEN [value |-> None, net |-> <<"preview_audio">>]
    ELSE [value |-> extract_features_from_audio_bytes(outcome),
          net |-> <<"preview_audio">>]

\* --------------------------------------------------------------- apple.py

\* A catalog song: [id, previews], previews a list of [url |-> string].
extract_preview_features_for_track(track, outcome) ==
    LET previews == track.previews
    IN  IF previews = <<>> THEN [value |-> None, net |-> <<>>]
        ELSE LET preview_url == previews[1].url
             IN  IF preview_url = "" THEN [value |-> None, net |-> <<>>]
                 ELSE LET r == extract_features_from_url(preview_url, outcome)
                      IN  IF ~Truthy(r.value) THEN [value |-> None, net |-> r.net]
                          ELSE [value |-> r.value @@ ("preview_url" :> preview_url),
                                net |-> r.net]

RECURSIVE SumOver(_, _)
SumOver(S, f) ==
    IF S = {} THEN RZero
    ELSE LET k == CHOOSE x \in S : TRUE IN RAdd(f[k], SumOver(S \ {k}, f))

\* 0.0 as a similarity
SimZero == [dot |-> RZero, nn |-> Rat(1)]

\* cosine_similarity, were norm_a summed over every key of vec_a and only
\* norm_a tested for zero
CosineOverOwnKeys(vec_a, vec_b) ==
    LET keys == {k \in DOMAIN vec_a : k \in DOMAIN vec_b}
        dot == SumOver(keys, [k \in keys |-> RMul(vec_a[k], Rat(vec_b[k]))])
        norm_a == SumOver(DOMAIN vec_a, [k \in DOMAIN vec_a |-> RMul(vec_a[k], vec_a[k])])
        norm_b == SumOver(keys, [k \in keys |-> RMul(Rat(vec_b[k]), Rat(vec_b[k]))])
    IN  IF keys = {} THEN SimZero
        ELSE IF norm_a.num = 0 THEN SimZero
        ELSE [dot |-> dot, nn |-> RMul(norm_a, norm_b)]

\* cosine_similarity, were the root of the norms' product left out
CosineWithoutRoot(vec_a, vec_b) ==
    LET keys == {k \in DOMAIN vec_a : k \in DOMAIN vec_b}
        dot == SumOver(keys, [k \in keys |-> RMul(vec_a[k], Rat(vec_b[k]))])
        norm_a == SumOver(keys, [k \in keys |-> RMul(vec_a[k], vec_a[k])])
        norm_b == SumOver(keys, [k \in keys |-> RMul(Rat(vec_b[k]), Rat(vec_b[k]))])
    IN  IF keys = {} THEN SimZero
        ELSE IF norm_a.num = 0 \/ norm_b.num = 0 THEN SimZero
        ELSE [dot |-> dot,
              nn |-> RMul(RMul(norm_a, norm_b), RMul(norm_a, norm_b))]

\* cosine_similarity(vec_a, vec_b): dot / sqrt(norm_a * norm_b), kept as the
\* pair (dot, norm_a * norm_b); vec_a holds rationals, vec_b fixed-point integers.
cosine_similarity(vec_a, vec_b) ==
    LET keys == {k \in DOMAIN vec_a : k \in DOMAIN vec_b}
        dot == SumOver(keys, [k \in keys |-> RMul(vec_a[k], Rat(vec_b[k]))])
        norm_a == SumOver(keys, [k \in keys |-> RMul(vec_a[k], vec_a[k])])
        norm_b == SumOver(keys, [k \in keys |-> RMul(Rat(vec_b[k]), Rat(vec_b[k]))])
    IN  IF keys = {} THEN SimZero
        ELSE IF norm_a.num = 0 \/ norm_b.num = 0 THEN SimZero
        ELSE [dot |-> dot, nn |-> RMul(norm_a, norm_b)]

\* s > t for similarities s = dot / sqrt(nn)
SimGt(s, t) ==
    LET s2 == RMul(RMul(s.dot, s.dot), t.nn)
        t2 == RMul(RMul(t.dot, t.dot), s.nn)
    IN  IF s.dot.num >= 0 /\ t.dot.num >= 0 THEN RLess(t2, s2)
        ELSE IF s.dot.num >= 0 THEN TRUE
        ELSE IF t.dot.num >= 0 THEN FALSE
        ELSE RLess(s2, t2)

\* list.sort(key=..., reverse=True): descending, equal keys keep their order.
\* The list is sorted through its positions: gt[i, j] says that the key of
\* element i is greater than the key of element j.
RECURSIVE InsertBeforeEqual(_, _, _)
InsertBeforeEqual(sorted, x, gt) ==
    IF sorted = <<>> THEN <<x>>
    ELSE IF ~gt[Head(sorted), x] THEN <<x>> \o sorted
    ELSE <<Head(sorted)>> \o InsertBeforeEqual(Tail(sorted), x, gt)

\* x goes before the first element it is greater than
RECURSIVE InsertDesc(_, _, _)
InsertDesc(sorted, x, gt) ==
    IF sorted = <<>> THEN <<x>>
    ELSE IF gt[x, Head(sorted)] THEN <<x>> \o sorted
    ELSE <<Head(sorted)>> \o InsertDesc(Tail(sorted), x, gt)

\* the positions 1..n in sorted order
RECURSIVE SortedPositions(_, _)
SortedPositions(n, gt) ==
    IF n = 0 THEN <<>>
    ELSE InsertDesc(SortedPositions(n - 1, gt), n, gt)

\* seq[:limit]: a negative limit counts from the end
SliceTo(seq, limit) ==
    IF limit >= 0 THEN SubSeq(seq, 1, IF limit > Len(seq) THEN Len(seq) ELSE limit)
    ELSE SubSeq(seq, 1, IF Len(seq) + limit < 0 THEN 0 ELSE Len(seq) + limit)

\* the dict recommend_tracks_for_vibe appends for a scored track (the display
\* metadata name, artist_name, album_name, apple_music_url is passed through)
ScoredTrackUrlFromAttrs(track, feats, feature_vector, score) ==
    [id |-> track.id, preview_url |-> "", features |-> feature_vector,
     similarity |-> score]

ScoredTrack(track, feats, feature_vector, score) ==
    [id |-> track.id, preview_url |-> feats["preview_url"],
     features |-> feature_vector, similarity |-> score]

\* The scoring loop of recommend_tracks_for_vibe over raw_candidates.
\* acc: scored_tracks so far, the calls made, and the shapes each similarity
\* computation was given (reference keys, extracted keys, keys scored).
\* the scoring loop, were it to stop at the first candidate without features
RECURSIVE ScoreUntilFailure(_, _, _, _)
ScoreUntilFailure(raw_candidates, i, ref_features, acc) ==
    IF i > Len(raw_candidates) THEN acc
    ELSE LET track == raw_candidates[i]
             r == extract_preview_features_for_track(track, track.audio)
             feats == r.value
         IN  IF ~Truthy(feats)
             THEN [acc EXCEPT !.net = acc.net \o r.net]
             ELSE LET feature_vector ==
                          [k \in {x \in DOMAIN feats :
                                     x \in DOMAIN ref_features /\ x # "preview_url"}
                              |-> feats[k]]
                      score == cosine_similarity(ref_features, feature_vector)
                  IN  ScoreUntilFailure(raw_candidates, i + 1, ref_features,
                          [scored_tracks |-> Append(acc.scored_tracks,
                               ScoredTrack(track, feats, feature_vector, score)),
                           net |-> acc.net \o r.net,
                           scored |-> Append(acc.scored,
                               [ref |-> DOMAIN ref_features,
                                extracted |-> DOMAIN feats \ {"preview_url"},
                                used |-> DOMAIN feature_vector])])

\* the scoring loop, were each scored track put at the head of scored_tracks
\* (the order in which results arrive last-first, not the catalog order)
RECURSIVE ScoreNewestFirst(_, _, _, _)
ScoreNewestFirst(raw_candidates, i, ref_features, acc) ==
    IF i > Len(raw_candidates) THEN acc
    ELSE LET track == raw_candidates[i]
             r == extract_preview_features_for_track(track, track.audio)
             feats == r.value
         IN  IF ~Truthy(feats)
             THEN ScoreNewestFirst(raw_candidates, i + 1, ref_features,
                      [acc EXCEPT !.net = acc.net \o r.net])
             ELSE LET feature_vector ==
                          [k \in {x \in DOMAIN feats :
                                     x \in DOMAIN ref_features /\ x # "preview_url"}
                              |-> feats[k]]
                      score == cosine_similarity(ref_features, feature_vector)
                  IN  ScoreNewestFirst(raw_candidates, i + 1, ref_features,
                          [scored_tracks |->
                               <<ScoredTrack(track, feats, feature_vector, score)>>
                                   \o acc.scored_tracks,
                           net |-> acc.net \o r.net,
                           scored |-> Append(acc.scored,
                               [ref |-> DOMAIN ref_features,
                                extracted |-> DOMAIN feats \ {"preview_url"},
                                used |-> DOMAIN feature_vector])])

RECURSIVE ScoreCandidates(_, _, _, _)
ScoreCandidates(raw_candidates, i, ref_features, acc) ==
    IF i > Len(raw_candidates) THEN acc
    ELSE LET track == raw_candidates[i]
             r == extract_preview_features_for_track(track, track.audio)
             feats == r.value
         IN  IF ~Truthy(feats)
             THEN ScoreCandidates(raw_candidates, i + 1, ref_features,
                      [acc EXCEPT !.net = acc.net \o r.net])
             ELSE LET feature_vector ==
                          [k \in {x \in DOMAIN feats :
                                     x \in DOMAIN ref_features /\ x # "preview_url"}
                              |-> feats[k]]
                      score == cosine_similarity(ref_features, feature_vector)
                  IN  ScoreCandidates(raw_candidates, i + 1, ref_features,
                          [scored_tracks |-> Append(acc.scored_tracks,
                               ScoredTrack(track, feats, feature_vector, score)),
                           net |-> acc.net \o r.net,
                           scored |-> Append(acc.scored,
                               [ref |-> DOMAIN ref_features,
                                extracted |-> DOMAIN feats \ {"preview_url"},
                                used |-> DOMAIN feature_vector])])

\* scored_tracks.sort(key=lambda t: t["similarity"], reverse=True)
SortBySimilarity(scored_tracks) ==
    LET n == Len(scored_tracks)
        gt == [i \in 1..n, j \in 1..n |->
                  SimGt(scored_tracks[i].similarity, scored_tracks[j].similarity)]
        order == SortedPositions(n, gt)
    IN  [p \in 1..n |-> scored_tracks[order[p]]]

\* recommend_tracks_for_vibe.  `search` is what the catalog search yields:
\* NetFail or [kind |-> "songs", data |-> the raw song list].  raised: whether
\* the call left by an exception; value: the list returned otherwise.
recommend_tracks_for_vibe(vibe, limit, cache, fetch, search) ==
    LET ref == get_reference_features_for_vibe(vibe, cache, fetch)
    IN  IF ~Truthy(ref.value)
        THEN [raised |-> FALSE, value |-> <<>>, cache |-> ref.cache, net |-> ref.net,
              scored |-> <<>>]
        ELSE IF search.kind = "error"
        THEN [raised |-> TRUE, value |-> <<>>, cache |-> ref.cache,
              net |-> ref.net \o <<"catalog_search">>, scored |-> <<>>]
        ELSE LET acc == ScoreCandidates(search.data, 1, ref.value,
                            [scored_tracks |-> <<>>,
                             net |-> ref.net \o <<"catalog_search">>,
                             scored |-> <<>>])
             IN  [raised |-> FALSE,
                  value |-> SliceTo(SortBySimilarity(acc.scored_tracks), limit),
                  cache |-> ref.cache, net |-> acc.net, scored |-> acc.scored]

\* ------------------------------------------------- vibes.py, spotify.py

\* VIBE_FEATURES, the targets in hundredths, the tempi in BPM
VIBE_FEATURES ==
    [mellow |-> [target_energy |-> 25, target_valence |-> 45, target_acousticness |-> 45,
                 min_tempo |-> 60, max_tempo |-> 100, target_danceability |-> 45],
     energetic |-> [target_energy |-> 85, target_valence |-> 70, target_acousticness |-> 10,
                    min_tempo |-> 110, max_tempo |-> 160, target_danceability |-> 75],
     sad |-> [target_energy |-> 30, target_valence |-> 20, target_acousticness |-> 35,
              min_tempo |-> 60, max_tempo |-> 95, target_danceability |-> 35],
     happy |-> [target_energy |-> 70, target_valence |-> 85, target_acousticness |-> 15,
                min_tempo |-> 100, max_tempo |-> 150, target_danceability |-> 70],
     focus |-> [target_energy |-> 35, target_valence |-> 35, target_acousticness |-> 60,
                min_tempo |-> 70, max_tempo |-> 120, target_danceability |-> 45],
     epic |-> [target_energy |-> 90, target_valence |-> 55, target_acousticness |-> 5,
               min_tempo |-> 120, max_tempo |-> 180, target_danceability |-> 60]]

\* (min, max) of the desired instrumentalness band, in hundredths
instrumental_filter_threshold(lyrical) ==
    IF lyrical THEN <<20, 50>> ELSE <<80, 100>>

\* score(feat) of recommend_tracks, in units of 10^-5: the weights are tenths,
\* the feature differences hundredths, the tempo excess BPM / 100.
score(feat, vibe, lyrical) ==
    LET vf == VIBE_FEATURES[vibe]
        lo == instrumental_filter_threshold(lyrical)[1]
        hi == instrumental_filter_threshold(lyrical)[2]
        mid == (lo + hi) \div 2
        sq(x) == x * x
        tempo == DictGet(feat, "tempo", 120)
        dist == 20 * sq(DictGet(feat, "energy", 0) - vf.target_energy)
              + 18 * sq(DictGet(feat, "valence", 0) - vf.target_valence)
              + 12 * sq(DictGet(feat, "acousticness", 0) - vf.target_acousticness)
              + 14 * sq(DictGet(feat, "danceability", 0) - vf.target_danceability)
              + 15 * sq(DictGet(feat, "instrumentalness", 0) - mid)
              + (IF tempo < vf.min_tempo THEN 8 * sq(vf.min_tempo - tempo)
                 ELSE IF tempo > vf.max_tempo THEN 8 * sq(tempo - vf.max_tempo)
                 ELSE 0)
    IN  IF ~Truthy(feat) THEN 0 ELSE 0 - dist

\* the filter loop, were both branches to test against the one bound 0.6
RECURSIVE FilterItemsOneBound(_, _, _)
FilterItemsOneBound(items, i, lyrical) ==
    IF i > Len(items) THEN <<>>
    ELSE LET t == items[i]
             f == t.feat
             rest == FilterItemsOneBound(items, i + 1, lyrical)
         IN  IF ~Truthy(f) THEN rest
             ELSE LET instr == DictGet(f, "instrumentalness", 0)
                  IN  IF lyrical /\ instr > 60 THEN rest
                      ELSE IF ~lyrical /\ instr < 60 THEN rest
                      ELSE <<[id |-> t.id, features |-> f]>> \o rest

\* the filter loop of recommend_tracks over items; an item is [id, feat], feat
\* what /audio-features holds for the id (None: nothing, so not in features_map)
RECURSIVE FilterItems(_, _, _)
FilterItems(items, i, lyrical) ==
    IF i > Len(items) THEN <<>>
    ELSE LET t == items[i]
             f == t.feat
             rest == FilterItems(items, i + 1, lyrical)
         IN  IF ~Truthy(f) THEN rest
             ELSE LET instr == DictGet(f, "instrumentalness", 0)
                  IN  IF lyrical /\ instr > 60 THEN rest
                      ELSE IF ~lyrical /\ instr < 70 THEN rest
                      ELSE <<[id |-> t.id, features |-> f]>> \o rest

\* results.sort(key=lambda x: score(x.features), reverse=True)
SortByScore(results, vibe, lyrical) ==
    LET n == Len(results)
        gt == [i \in 1..n, j \in 1..n |->
                  score(results[i].features, vibe, lyrical)
                      > score(results[j].features, vibe, lyrical)]
        order == SortedPositions(n, gt)
    IN  [p \in 1..n |-> results[order[p]]]

\* recommend_tracks.  `reco` is what GET /recommendations yields, NetFail or
\* [kind |-> "tracks", data |-> items, features_ok |-> whether GET /audio-features
\* answers].  status: 200 returned, 401 HTTPException, 500 another exception.
recommend_tracks(access_token, vibe0, lyrical, limit, reco) ==
    LET vibe == Lower(vibe0)
    IN  IF access_token = ""
        THEN [status |-> 401, value |-> <<>>, net |-> <<>>]
        ELSE IF vibe \notin DOMAIN VIBE_FEATURES
        THEN [status |-> 500, value |-> <<>>, net |-> <<>>]
        ELSE IF reco.kind = "error"
        THEN [status |-> 500, value |-> <<>>, net |-> <<"spotify_recommendations">>]
        ELSE IF reco.data = <<>>
        THEN [status |-> 200, value |-> <<>>, net |-> <<"spotify_recommendations">>]
        ELSE IF ~reco.features_ok
        THEN [status |-> 500, value |-> <<>>,
              net |-> <<"spotify_recommendations", "spotify_audio_features">>]
        ELSE [status |-> 200,
              value |-> SliceTo(SortByScore(FilterItems(reco.data, 1, lyrical),
                                            vibe, lyrical), limit),
              net |-> <<"spotify_recommendations", "spotify_audio_features",
                        "spotify_audio_features">>]

\* ----------------------------------------------------------------- actions

\* The outcome of a GET that the handler does not make is of no account: it is
\* fixed to NetFail for every seed that is cached or of another vibe.
FetchesOnlyFor(vibe, fetch) ==
    \A i \in 1..Len(studentTracks) :
        (featureCache[studentTracks[i].id] # None
            \/ Lower(studentTracks[i].vibe) # Lower(vibe))
        => fetch[studentTracks[i].id] = NetFail

\* a caller asks for the reference profile of `vibe`
GetReferenceFeatures(vibe, fetch) ==
    /\ resp = NoResp
    /\ FetchesOnlyFor(vibe, fetch)
    /\ LET r == get_reference_features_for_vibe(vibe, featureCache, fetch)
       IN  /\ featureCache' = r.cache
           /\ net' = r.net
           /\ resp' = [op |-> "get_reference_features_for_vibe", vibe |-> vibe,
                       value |-> r.value]
           /\ hist' = [op |-> "get_reference_features_for_vibe",
                       cacheBefore |-> featureCache, fetch |-> fetch]
    /\ UNCHANGED studentTracks
    /\ UNCHANGED credVars
    /\ UNCHANGED fetchers

\* the caller takes the response; the process is idle again
Deliver ==
    /\ resp # NoResp
    /\ resp' = NoResp
    /\ net' = <<>>
    /\ hist' = NoHist
    /\ UNCHANGED <<studentTracks, featureCache>>
    /\ UNCHANGED credVars
    /\ UNCHANGED fetchers

InitProfile ==
    /\ studentTracks \in SeedConfigs
    /\ featureCache = [i \in SeedIds |-> None]
    /\ resp = NoResp
    /\ net = <<>>
    /\ hist = NoHist
    /\ fetchers = [w \in Procs |-> IdleFetcher]
    /\ CredAtRest(DefaultExpiresIn)

NextProfile ==
    \/ /\ resp = NoResp
       /\ \E vibe \in RequestVibes, fetch \in [SeedIds -> FetchOutcomes] :
              GetReferenceFeatures(vibe, fetch)
    \/ Deliver

SpecProfile == InitProfile /\ [][NextProfile]_vars

\* ------------------------------------------------------ app/main.py (Apple)

\* STUDENT_TRACKS as the repository configures it: one seed per vibe
STUDENT_TRACKS ==
    << [id |-> 1, vibe |-> "focus"],
       [id |-> 2, vibe |-> "creative"],
       [id |-> 3, vibe |-> "mellow"] >>

MaxCandidates == 3
MaxLimit == 3

Limits == (-1)..MaxLimit

\* vibes asked of the Apple route: one with a seed, one without
AppleVibes == {"Focus", "jazz"}

\* what the GET of a candidate's preview yields
PreviewOutcomes == {NetFail, ClipShort, ClipA, ClipB}

\* The songs a catalog search may return at position i: without previews, with
\* an empty preview URL, or with a preview URL serving `audio`.
SongsAt(i) ==
    {[id |-> i, previews |-> <<>>, audio |-> NetFail],
     [id |-> i, previews |-> <<[url |-> ""]>>, audio |-> NetFail]}
    \cup {[id |-> i, previews |-> <<[url |-> "preview" \o ToString(i)]>>, audio |-> a] :
             a \in PreviewOutcomes}

RawSongLists ==
    UNION {{s \in [1..n -> UNION {SongsAt(i) : i \in 1..n}] :
               \A i \in 1..n : s[i].id = i} : n \in 0..MaxCandidates}

SongLists == {[kind |-> "songs", data |-> s] : s \in RawSongLists}

SeedFetches(vibe) == {f \in [SeedIds -> FetchOutcomes] : FetchesOnlyFor(vibe, f)}

\* POST /apple/recommend
AppleRecommend(vibe, limit, fetch, search) ==
    /\ resp = NoResp
    /\ IF limit <= 0
       THEN /\ resp' = [op |-> "apple_recommend", status |-> 400, vibe |-> vibe,
                        limit |-> limit, tracks |-> <<>>]
            /\ net' = <<>>
            /\ hist' = [op |-> "apple_recommend", cacheBefore |-> featureCache,
                        fetch |-> fetch, search |-> search, scored |-> <<>>]
            /\ UNCHANGED featureCache
       ELSE LET r == recommend_tracks_for_vibe(vibe, limit, featureCache, fetch, search)
            IN  /\ resp' = IF r.raised
                           THEN [op |-> "apple_recommend", status |-> 500, vibe |-> vibe,
                                 limit |-> limit, tracks |-> <<>>]
                           ELSE [op |-> "apple_recommend", status |-> 200, vibe |-> vibe,
                                 limit |-> limit, tracks |-> r.value]
                /\ net' = r.net
                /\ hist' = [op |-> "apple_recommend", cacheBefore |-> featureCache,
                            fetch |-> fetch, search |-> search, scored |-> r.scored]
                /\ featureCache' = r.cache
    /\ UNCHANGED studentTracks
    /\ UNCHANGED credVars
    /\ UNCHANGED fetchers

InitRank ==
    /\ studentTracks = STUDENT_TRACKS
    /\ featureCache = [i \in SeedIds |-> None]
    /\ resp = NoResp
    /\ net = <<>>
    /\ hist = NoHist
    /\ fetchers = [w \in Procs |-> IdleFetcher]
    /\ CredAtRest(DefaultExpiresIn)

SearchOutcomes == {NetFail} \cup SongLists

\* audio features Spotify may hold for a track (hundredths, tempo in BPM)
FeatLyricalCalm ==
    [energy |-> 35, valence |-> 35, acousticness |-> 60, danceability |-> 45,
     instrumentalness |-> 10, tempo |-> 100]
FeatLyricalLoud ==
    [energy |-> 80, valence |-> 70, acousticness |-> 10, danceability |-> 75,
     instrumentalness |-> 60, tempo |-> 130]
FeatInstrumental ==
    [energy |-> 35, valence |-> 35, acousticness |-> 60, danceability |-> 45,
     instrumentalness |-> 90, tempo |-> 60]
FeatHalfInstrumental ==
    [energy |-> 80, valence |-> 50, acousticness |-> 20, danceability |-> 60,
     instrumentalness |-> 70, tempo |-> 125]

SpotifyFeatures ==
    {None, FeatLyricalCalm, FeatLyricalLoud, FeatInstrumental, FeatHalfInstrumental}

RecoLists ==
    UNION {{[i \in 1..n |-> [id |-> i, feat |-> f[i]]] : f \in [1..n -> SpotifyFeatures]} :
              n \in 0..MaxCandidates}

RecoOutcomes ==
    {NetFail} \cup {[kind |-> "tracks", data |-> d, features_ok |-> ok] :
                       d \in RecoLists, ok \in BOOLEAN}

SpotifyVibes == {"focus", "Epic", "polka"}
AccessTokens == {"", "token"}

\* recommend_tracks as POST /recommend-and-create calls it: body.limit as sent
RecommendTracks(access_token, vibe, lyrical, limit, reco) ==
    /\ resp = NoResp
    /\ LET r == recommend_tracks(access_token, vibe, lyrical, limit, reco)
       IN  /\ resp' = [op |-> "recommend_tracks", status |-> r.status, vibe |-> vibe,
                       limit |-> limit, tracks |-> r.value]
           /\ net' = r.net
           /\ hist' = [op |-> "recommend_tracks", lyrical |-> lyrical, reco |-> reco]
    /\ UNCHANGED <<studentTracks, featureCache>>
    /\ UNCHANGED credVars
    /\ UNCHANGED fetchers

\* a request arrives only at an idle process: one handler at a time
NextRank ==
    \/ /\ resp = NoResp
       /\ \E vibe \in AppleVibes, limit \in Limits :
              \E fetch \in SeedFetches(vibe), search \in SearchOutcomes :
                  AppleRecommend(vibe, limit, fetch, search)
    \/ /\ resp = NoResp
       /\ \E access_token \in AccessTokens, vibe \in SpotifyVibes, lyrical \in BOOLEAN :
              \E limit \in Limits, reco \in RecoOutcomes :
                  RecommendTracks(access_token, vibe, lyrical, limit, reco)
    \/ Deliver

SpecRank == InitRank /\ [][NextRank]_vars

\* ------------------------------------------------- credential lifecycle

MaxRequests == 2
MaxTick == 1

\* expiry of the stored token, in seconds after time 0
InitExpiries == {10, 30, 31, 3600}
\* expires_in values the token endpoint may report
ExpiresIns == {10}
\* body.spotify_user_id
RequestUsers == {"alice", "bob"}

\* int(time.time())
TimeInt(t) == t \div TicksPerSecond

\* time.time() < user.token_expires_at - 30, the clock reading t in ticks
TokenStillValidInclusive(t, expires_at) ==
    t <= (expires_at - SafetyMargin) * TicksPerSecond

TokenStillValidTwiceMargin(t, expires_at) ==
    t < (expires_at - 2 * SafetyMargin) * TicksPerSecond

TokenStillValid(t, expires_at) ==
    t < (expires_at - SafetyMargin) * TicksPerSecond

\* stop_after_attempt(3): give up once this many attempts have been made
StopAfterOneMore(attempt_number) == attempt_number >= RetryAttempts + 1

stop_after_attempt(attempt_number) == attempt_number >= RetryAttempts

\* JSON bodies of a 200 reply of the token endpoint issuing `token`
TokenResponses(token) ==
    {[access_token |-> token]}
        \cup {[access_token |-> token, expires_in |-> e] : e \in ExpiresIns}

\* the row ensure_valid_token builds from the reply, the clock reading t
RowKeepingToken(user, refreshed, t) ==
    [user EXCEPT !.token_expires_at =
                     TimeInt(t) + DictGet(refreshed, "expires_in", DefaultExpiresIn)]

RowExpiringAtLifetime(user, refreshed, t) ==
    [user EXCEPT !.access_token = refreshed.access_token,
                 !.token_expires_at = DictGet(refreshed, "expires_in", DefaultExpiresIn)]

\* the row, were the refresh token taken from the reply as well, which
\* carries one only when the endpoint rotates it
RowRotatingRefreshToken(user, refreshed, t) ==
    [user EXCEPT !.access_token = refreshed.access_token,
                 !.refresh_token = DictGet(refreshed, "refresh_token", ""),
                 !.token_expires_at =
                     TimeInt(t) + DictGet(refreshed, "expires_in", DefaultExpiresIn)]

\* the row, were the safety margin taken off the stored expiry as well
RowExpiringAtMargin(user, refreshed, t) ==
    [user EXCEPT !.access_token = refreshed.access_token,
                 !.token_expires_at =
                     TimeInt(t) + DictGet(refreshed, "expires_in", DefaultExpiresIn)
                         - SafetyMargin]

RefreshedRow(user, refreshed, t) ==
    [user EXCEPT !.access_token = refreshed.access_token,
                 !.token_expires_at =
                     TimeInt(t) + DictGet(refreshed, "expires_in", DefaultExpiresIn)]

\* the authorized routes of the server
Routes == {"recommend", "playlist", "recommend_and_create"}

\* the Spotify API calls a route makes after ensure_valid_token, in order;
\* add_tracks_to_playlist posts nothing for an empty list of uris
RouteCalls(route, has_uris) ==
    CASE route = "recommend" -> <<>>
      [] route = "playlist" ->
            <<"get_me", "create_playlist">>
                \o (IF has_uris THEN <<"add_tracks_to_playlist">> ELSE <<>>)
      [] route = "recommend_and_create" ->
            <<"recommendations", "get_audio_features", "get_me", "create_playlist">>
                \o (IF has_uris THEN <<"add_tracks_to_playlist">> ELSE <<>>)

\* the most Spotify API calls one route makes
MaxApiCalls == Len(RouteCalls("recommend_and_create", TRUE))

\* the token a route passes to the Spotify API calls: ut.access_token
ApiTokenAsLoaded(c) == c.entry.access_token

ApiToken(c) == c.user.access_token

\* How the HTTPException(404) of get_user_token leaves the route: /recommend
\* calls get_user_token inside `try: ... except Exception`, which catches it
\* and raises HTTPException(500) in its place; the other routes let it pass.
NotAuthorized(route) == IF route = "recommend" THEN "http500" ELSE "http404"

\* an authorized route starts: get_user_token(db, body.spotify_user_id)
get_user_token(p, route, spotify_user_id) ==
    /\ calls[p].pc = "idle"
    /\ requests < MaxRequests
    /\ requests' = requests + 1
    /\ calls' = [calls EXCEPT ![p] =
                    IF spotify_user_id \in DOMAIN store
                    THEN [IdleCall EXCEPT !.pc = "ensure", !.route = route,
                                          !.uid = spotify_user_id,
                                          !.user = store[spotify_user_id]]
                    ELSE [IdleCall EXCEPT !.pc = NotAuthorized(route), !.route = route,
                                          !.uid = spotify_user_id]]
    /\ UNCHANGED <<now, store, issued, commits>>
    /\ UNCHANGED pipelineVars
    /\ UNCHANGED fetchers

\* ensure_valid_token, the expiry test
ensure_valid_token(p) ==
    /\ calls[p].pc = "ensure"
    /\ calls' = [calls EXCEPT ![p] =
                    [@ EXCEPT !.entry = calls[p].user,
                              !.pc = IF TokenStillValid(now, calls[p].user.token_expires_at)
                                     THEN "returned" ELSE "refresh"]]
    /\ UNCHANGED <<now, store, issued, requests, commits>>
    /\ UNCHANGED pipelineVars
    /\ UNCHANGED fetchers

\* one attempt of refresh_access_token, were the credential's token blanked
\* when the last attempt has failed
RefreshDroppingToken(p, reply) ==
    /\ calls[p].pc = "refresh"
    /\ IF reply = NetFail
       THEN /\ calls' = [calls EXCEPT ![p] =
                            IF stop_after_attempt(Len(calls[p].outcomes) + 1)
                            THEN [@ EXCEPT !.outcomes = Append(@, "fail"),
                                           !.user = [calls[p].user EXCEPT
                                                        !.access_token = 0,
                                                        !.token_expires_at = 0],
                                           !.pc = "raised"]
                            ELSE [@ EXCEPT !.outcomes = Append(@, "fail"),
                                           !.pc = "wait"]]
            /\ UNCHANGED issued
       ELSE /\ calls' = [calls EXCEPT ![p] =
                            [@ EXCEPT !.outcomes = Append(@, "ok"),
                                      !.refreshed = reply, !.pc = "assign"]]
            /\ issued' = issued + 1
    /\ UNCHANGED <<now, store, requests, commits>>
    /\ UNCHANGED pipelineVars
    /\ UNCHANGED fetchers

\* one attempt of refresh_access_token: POST to the token endpoint
refresh_access_token(p, reply) ==
    /\ calls[p].pc = "refresh"
    /\ IF reply = NetFail
       THEN /\ calls' = [calls EXCEPT ![p] =
                            [@ EXCEPT !.outcomes = Append(@, "fail"),
                                      !.pc = IF stop_after_attempt(Len(calls[p].outcomes) + 1)
                                             THEN "raised" ELSE "wait"]]
            /\ UNCHANGED issued
       ELSE /\ calls' = [calls EXCEPT ![p] =
                            [@ EXCEPT !.outcomes = Append(@, "ok"),
                                      !.refreshed = reply, !.pc = "assign"]]
            /\ issued' = issued + 1
    /\ UNCHANGED <<now, store, requests, commits>>
    /\ UNCHANGED pipelineVars
    /\ UNCHANGED fetchers

\* tenacity sleeps between two attempts
wait_fixed(p) ==
    /\ calls[p].pc = "wait"
    /\ now' = now + RetryWait * TicksPerSecond
    /\ calls' = [calls EXCEPT ![p].pc = "refresh"]
    /\ UNCHANGED <<store, issued, requests, commits>>
    /\ UNCHANGED pipelineVars
    /\ UNCHANGED fetchers

\* ensure_valid_token: the two assignments, db.add(user), db.commit()
db_commit(p) ==
    /\ calls[p].pc = "assign"
    /\ LET row == RefreshedRow(calls[p].user, calls[p].refreshed, now)
       IN  /\ store' = [store EXCEPT ![calls[p].uid] = row]
           /\ calls' = [calls EXCEPT ![p] =
                           [@ EXCEPT !.user = row, !.committed = row,
                                     !.writes = @ + 1, !.commitNo = commits + 1,
                                     !.pc = "reload"]]
    /\ commits' = commits + 1
    /\ UNCHANGED <<now, issued, requests>>
    /\ UNCHANGED pipelineVars
    /\ UNCHANGED fetchers

\* ensure_valid_token: db.refresh(user); return user
db_refresh(p) ==
    /\ calls[p].pc = "reload"
    /\ calls' = [calls EXCEPT ![p] =
                    [@ EXCEPT !.user = store[calls[p].uid], !.reloadNo = commits,
                              !.pc = "returned"]]
    /\ UNCHANGED <<now, store, issued, requests, commits>>
    /\ UNCHANGED pipelineVars
    /\ UNCHANGED fetchers

\* the route goes on with the returned credential: its Spotify API calls, the
\* first n of them answering, the next one (if any is left) raising
call_spotify(p, n, has_uris) ==
    /\ calls[p].pc = "returned"
    /\ n <= Len(RouteCalls(calls[p].route, has_uris))
    /\ LET todo == RouteCalls(calls[p].route, has_uris)
           made == IF n < Len(todo) THEN n + 1 ELSE n
       IN  calls' = [calls EXCEPT ![p] =
                        [@ EXCEPT !.api = [i \in 1..made |->
                                              [call |-> todo[i],
                                               token |-> ApiToken(calls[p])]],
                                  !.pc = IF n < Len(todo) \/ calls[p].route = "recommend"
                                         THEN "failed" ELSE "responded"]]
    /\ UNCHANGED <<now, store, issued, requests, commits>>
    /\ UNCHANGED pipelineVars
    /\ UNCHANGED fetchers

\* the route goes on with the returned credential; what it does with it is
\* not followed
Proceed(p) ==
    /\ calls[p].pc = "returned"
    /\ calls' = [calls EXCEPT ![p] = IdleCall]
    /\ UNCHANGED <<now, store, issued, requests, commits>>
    /\ UNCHANGED pipelineVars
    /\ UNCHANGED fetchers

\* the response leaves: the result, or the error of get_user_token,
\* ensure_valid_token or a Spotify API call
Return(p) ==
    /\ calls[p].pc \in {"responded", "failed", "raised", "http404", "http500"}
    /\ calls' = [calls EXCEPT ![p] = IdleCall]
    /\ UNCHANGED <<now, store, issued, requests, commits>>
    /\ UNCHANGED pipelineVars
    /\ UNCHANGED fetchers

\* time passes
Tick ==
    /\ now < MaxTick
    /\ now' = now + 1
    /\ UNCHANGED <<store, calls, issued, requests, commits>>
    /\ UNCHANGED pipelineVars
    /\ UNCHANGED fetchers

\* the steps a request thread takes on its own once the request has arrived
Step(p) ==
    \/ ensure_valid_token(p)
    \/ \E reply \in {NetFail} \cup TokenResponses(issued + 1) :
           refresh_access_token(p, reply)
    \/ wait_fixed(p)
    \/ db_commit(p)
    \/ db_refresh(p)
    \/ Proceed(p)
    \/ Return(p)

InitCred ==
    /\ studentTracks = STUDENT_TRACKS
    /\ featureCache = [i \in SeedIds |-> None]
    /\ resp = NoResp
    /\ net = <<>>
    /\ hist = NoHist
    /\ fetchers = [w \in Procs |-> IdleFetcher]
    /\ \E expires_at \in InitExpiries : CredAtRest(expires_at)

\* Concurrent requests, followed up to the return of ensure_valid_token, which
\* does not depend on the route: the requests are POST /playlist.
NextCred ==
    \/ \E p \in Procs, spotify_user_id \in RequestUsers :
           get_user_token(p, "playlist", spotify_user_id)
    \/ \E p \in Procs : Step(p)
    \/ Tick

SpecCred == InitCred /\ [][NextCred]_vars

\* every blocking call of a thread returns: each HTTP call has a 15 s timeout,
\* the sleep is fixed, the database calls are local
SpecCredFair == SpecCred /\ \A p \in Procs : WF_vars(Step(p))

\* lifetimes the token endpoint reports to the requests followed one at a
\* time: short of the safety margin, the margin itself, one second more
RouteExpiresIns == ExpiresIns \cup {SafetyMargin, SafetyMargin + 1}

RouteTokenResponses(token) ==
    TokenResponses(token)
        \cup {[access_token |-> token, expires_in |-> e] : e \in RouteExpiresIns}

\* the steps of a request thread, its Spotify API calls included
RouteStep(p) ==
    \/ ensure_valid_token(p)
    \/ \E reply \in {NetFail} \cup RouteTokenResponses(issued + 1) :
           refresh_access_token(p, reply)
    \/ wait_fixed(p)
    \/ db_commit(p)
    \/ db_refresh(p)
    \/ \E n \in 0..MaxApiCalls, has_uris \in BOOLEAN : call_spotify(p, n, has_uris)
    \/ Return(p)

\* One request at a time through any of the authorized routes, followed to
\* its response.
NextRoute ==
    \/ /\ \A q \in Procs : calls[q].pc = "idle"
       /\ \E p \in Procs, route \in Routes, spotify_user_id \in RequestUsers :
              get_user_token(p, route, spotify_user_id)
    \/ \E p \in Procs : RouteStep(p)
    \/ Tick

SpecRoute == InitCred /\ [][NextRoute]_vars

\* ------------------------------------------- concurrent seed-cache access

\* calls of get_features_for_student_track one thread makes
MaxLookups == 2

\* the audio file a seed track's audio_url serves
SeedAudios == {ClipA, ClipB}

\* STUDENT_TRACKS, each track with the file behind its audio_url
SeedsWithAudio ==
    {[i \in 1..Len(STUDENT_TRACKS) |->
         [id |-> STUDENT_TRACKS[i].id, vibe |-> STUDENT_TRACKS[i].vibe, audio |-> a[i]]] :
        a \in [1..Len(STUDENT_TRACKS) -> SeedAudios]}

\* what one GET of the track's audio_url may yield: an error, bytes damaged on
\* the way, or the file
AudioFetches(track) == {NetFail, ClipCorrupt, ClipEmpty, track.audio}

\* _STUDENT_FEATURE_CACHE[track_id] = feats
CacheStoreAlone(cache, track_id, feats) ==
    [i \in DOMAIN cache |-> IF i = track_id THEN feats ELSE None]

CacheStore(cache, track_id, feats) == [cache EXCEPT ![track_id] = feats]

\* get_features_for_student_track, the cache lookup
cache_lookup(w, track_id) ==
    /\ fetchers[w].pc = "idle"
    /\ fetchers[w].served < MaxLookups
    /\ fetchers' = [fetchers EXCEPT ![w] =
                       IF featureCache[track_id] # None
                       THEN [@ EXCEPT !.pc = "done", !.track_id = track_id,
                                      !.value = featureCache[track_id]]
                       ELSE [@ EXCEPT !.pc = "fetch", !.track_id = track_id,
                                      !.miss = TRUE]]
    /\ UNCHANGED pipelineVars
    /\ UNCHANGED credVars

\* get_features_for_student_track, the try block: GET and extraction
fetch_and_extract(w, outcome) ==
    /\ fetchers[w].pc = "fetch"
    /\ LET feats == IF outcome.kind = "error" THEN Raised
                    ELSE student_extract_features_from_audio_bytes(outcome)
       IN  fetchers' = [fetchers EXCEPT ![w] =
                           IF feats = Raised
                           THEN [@ EXCEPT !.pc = "done"]
                           ELSE [@ EXCEPT !.pc = "store", !.feats = feats]]
    /\ UNCHANGED pipelineVars
    /\ UNCHANGED credVars

\* get_features_for_student_track, the cache write and the return
cache_write(w) ==
    /\ fetchers[w].pc = "store"
    /\ featureCache' = CacheStore(featureCache, fetchers[w].track_id, fetchers[w].feats)
    /\ fetchers' = [fetchers EXCEPT ![w] =
                       [@ EXCEPT !.pc = "done", !.value = fetchers[w].feats,
                                 !.wrote = TRUE]]
    /\ UNCHANGED <<studentTracks, resp, net, hist>>
    /\ UNCHANGED credVars

\* the caller has the result; the thread may make its next call
lookup_done(w) ==
    /\ fetchers[w].pc = "done"
    /\ fetchers' = [fetchers EXCEPT ![w] =
                       [IdleFetcher EXCEPT !.served = fetchers[w].served + 1]]
    /\ UNCHANGED pipelineVars
    /\ UNCHANGED credVars

InitCache ==
    /\ studentTracks \in SeedsWithAudio
    /\ featureCache = [i \in SeedIds |-> None]
    /\ resp = NoResp
    /\ net = <<>>
    /\ hist = NoHist
    /\ fetchers = [w \in Procs |-> IdleFetcher]
    /\ CredAtRest(DefaultExpiresIn)

NextCache ==
    \/ \E w \in Procs, i \in 1..Len(studentTracks) : cache_lookup(w, studentTracks[i].id)
    \/ \E w \in Procs :
           /\ fetchers[w].pc = "fetch"
           /\ \E outcome \in AudioFetches(studentTracks[fetchers[w].track_id]) :
                  fetch_and_extract(w, outcome)
    \/ \E w \in Procs : cache_write(w)
    \/ \E w \in Procs : lookup_done(w)

SpecCache == InitCache /\ [][NextCache]_vars

\* --------------------------------------------------- similarity of a vector

\* the largest reading a decoded clip gives
MaxReading == 1

MeasKeys == DOMAIN MeasA

\* Readings of a decodable clip of ten seconds: a silent signal reads zero
\* throughout, a sounding one has a positive RMS (and with it a positive
\* log-scaled energy); every other reading may be zero or not.
SoundReadings ==
    {r \in [MeasKeys -> 0..MaxReading] :
        /\ r.rms = 0 => \A k \in MeasKeys : r[k] = 0
        /\ r.rms > 0 => r.energy > 0}

SoundClips ==
    {[kind |-> "audio", decodable |-> TRUE, size |-> ClipA.size, meas |-> r] :
        r \in SoundReadings}

\* a dict of floats as the reference vector of a vibe with one seed carries it
RatVec(vec) == [k \in DOMAIN vec |-> Rat(vec[k])]

\* the reference vector of a one-seed vibe scored against itself
SelfSimilarityOfProfile(clip) ==
    /\ resp = NoResp
    /\ LET vec == student_extract_features_from_audio_bytes(clip)
       IN  resp' = [op |-> "cosine_similarity", vec |-> vec,
                    similarity |-> cosine_similarity(RatVec(vec), vec)]
    /\ net' = <<>>
    /\ hist' = [op |-> "cosine_similarity", clip |-> clip]
    /\ UNCHANGED <<studentTracks, featureCache>>
    /\ UNCHANGED credVars
    /\ UNCHANGED fetchers

\* a candidate's feature_vector (the extracted keys the reference has) scored
\* against itself
SelfSimilarityOfCandidate(clip) ==
    /\ resp = NoResp
    /\ LET feats == extract_features_from_audio_bytes(clip)
           feature_vector == [k \in {x \in DOMAIN feats : x \in RefKeys} |-> feats[k]]
       IN  resp' = [op |-> "cosine_similarity", vec |-> feature_vector,
                    similarity |-> cosine_similarity(RatVec(feature_vector), feature_vector)]
    /\ net' = <<>>
    /\ hist' = [op |-> "cosine_similarity", clip |-> clip]
    /\ UNCHANGED <<studentTracks, featureCache>>
    /\ UNCHANGED credVars
    /\ UNCHANGED fetchers

NextCosine ==
    \/ \E clip \in SoundClips : SelfSimilarityOfProfile(clip)
    \/ \E clip \in SoundClips : SelfSimilarityOfCandidate(clip)
    \/ Deliver

SpecCosine == InitRank /\ [][NextCosine]_vars

\* ---------------------------------------------- similarity of two vectors

\* dimension keys the two dicts are drawn over
PairKeys == {"tempo", "energy", "zcr"}

\* the dicts of numbers over some of the keys (none included)
FeatureDicts == UNION {[K -> 0..MaxReading] : K \in SUBSET PairKeys}

\* {k: vec[k] for k in keys}
Restrict(vec, keys) == [k \in keys |-> vec[k]]

\* cosine_similarity(vec_a, vec_b) for two dicts; the record kept beside it is
\* the same call on the two dicts cut down to the keys they share
ScorePair(vec_a, vec_b) ==
    /\ resp = NoResp
    /\ resp' = [op |-> "cosine_pair", vec_a |-> vec_a, vec_b |-> vec_b,
                similarity |-> cosine_similarity(RatVec(vec_a), vec_b)]
    /\ net' = <<>>
    /\ LET shared == DOMAIN vec_a \cap DOMAIN vec_b
       IN  hist' = [op |-> "cosine_pair", shared |-> shared,
                    restricted |-> cosine_similarity(RatVec(Restrict(vec_a, shared)),
                                                     Restrict(vec_b, shared))]
    /\ UNCHANGED <<studentTracks, featureCache>>
    /\ UNCHANGED credVars
    /\ UNCHANGED fetchers

NextPair ==
    \/ \E vec_a \in FeatureDicts, vec_b \in FeatureDicts : ScorePair(vec_a, vec_b)
    \/ Deliver

SpecPair == InitRank /\ [][NextPair]_vars

\* ------------------------------------------------- the two extractors

\* Bytes handed to an extractor: undecodable, decoding to no sample, or
\* decoding to just under a second, a second, or ten seconds of samples.
ExtractClips ==
    {ClipCorrupt, ClipEmpty}
        \cup {[kind |-> "audio", decodable |-> TRUE, size |-> z, meas |-> r] :
                 z \in {SampleRate - 1, SampleRate, ClipA.size}, r \in SoundReadings}

\* what writing the bytes to the temporary file may do
DiskOutcomes == {"written", "write_fails"}

\* audio_features.extract_features_from_audio_bytes with its temporary file:
\* NamedTemporaryFile(delete=False) and the write come before the try block,
\* so an exception of the write leaves by the with statement, which closes the
\* file and keeps it; past the write, the finally block removes the file.
extract_features_with_tempfile(audio_bytes, disk) ==
    IF disk = "write_fails" THEN [value |-> Raised, tmp_exists |-> TRUE]
    ELSE [value |-> extract_features_from_audio_bytes(audio_bytes),
          tmp_exists |-> FALSE]

\* the candidate extractor called on bytes
ExtractCandidate(audio_bytes, disk) ==
    /\ resp = NoResp
    /\ LET r == extract_features_with_tempfile(audio_bytes, disk)
       IN  resp' = [op |-> "extract_candidate", value |-> r.value,
                    tmp_exists |-> r.tmp_exists]
    /\ net' = <<>>
    /\ hist' = [op |-> "extract_candidate", clip |-> audio_bytes, disk |-> disk]
    /\ UNCHANGED <<studentTracks, featureCache>>
    /\ UNCHANGED credVars
    /\ UNCHANGED fetchers

\* the seed-track extractor called on bytes; it writes no file
ExtractSeed(data) ==
    /\ resp = NoResp
    /\ resp' = [op |-> "extract_seed",
                value |-> student_extract_features_from_audio_bytes(data),
                tmp_exists |-> FALSE]
    /\ net' = <<>>
    /\ hist' = [op |-> "extract_seed", clip |-> data, disk |-> "written"]
    /\ UNCHANGED <<studentTracks, featureCache>>
    /\ UNCHANGED credVars
    /\ UNCHANGED fetchers

NextExtract ==
    \/ \E audio_bytes \in ExtractClips, disk \in DiskOutcomes :
           ExtractCandidate(audio_bytes, disk)
    \/ \E data \in ExtractClips : ExtractSeed(data)
    \/ Deliver

SpecExtract == InitRank /\ [][NextExtract]_vars

\* ------------------------------------------------ claims: reference profile

\* What the last get_reference_features_for_vibe call met, restated from the
\* seed list, the cache before the call and the fetch outcomes.
MatchingSeeds(vibe) ==
    {i \in 1..Len(studentTracks) : Lower(studentTracks[i].vibe) = Lower(vibe)}

SeedSucceeded(i) ==
    LET id == studentTracks[i].id
    IN  \/ hist.cacheBefore[id] # None
        \/ /\ hist.fetch[id].kind = "audio"
           /\ hist.fetch[id].decodable
           /\ hist.fetch[id].size > 0

SeedReading(i, k) ==
    LET id == studentTracks[i].id
    IN  IF hist.cacheBefore[id] # None THEN hist.cacheBefore[id][k]
        ELSE IF k = "energy" THEN hist.fetch[id].meas.rms
        ELSE hist.fetch[id].meas[k]

SucceededSeeds(vibe) == {i \in MatchingSeeds(vibe) : SeedSucceeded(i)}

RECURSIVE SumReadings(_, _)
SumReadings(S, k) ==
    IF S = {} THEN 0
    ELSE LET i == CHOOSE x \in S : TRUE
         IN  SeedReading(i, k) + SumReadings(S \ {i}, k)

ProfileAnswered == resp.op = "get_reference_features_for_vibe"

\* C1: whenever a vibe has at least one seed whose extraction succeeds, the
\* reference returned is, in every dimension, the sum over exactly the
\* succeeded seeds divided by their number (failed seeds count in neither).
C1_ReferenceIsMeanOfSucceeded ==
    (ProfileAnswered /\ SucceededSeeds(resp.vibe) # {}) =>
        /\ resp.value # None
        /\ DOMAIN resp.value = RefKeys
        /\ \A k \in RefKeys :
              /\ resp.value[k].den = Cardinality(SucceededSeeds(resp.vibe))
              /\ resp.value[k].num = SumReadings(SucceededSeeds(resp.vibe), k)

\* a vibe with three seeds, two extracted (readings A and B) and one failed:
\* tempo (8 + 10) / 2 and energy (2 + 4) / 2
C1_Witness ==
    /\ ProfileAnswered
    /\ Cardinality(MatchingSeeds(resp.vibe)) = 3
    /\ Cardinality(SucceededSeeds(resp.vibe)) = 2
    /\ resp.value # None
    /\ resp.value["tempo"] = [num |-> 18, den |-> 2]
    /\ resp.value["energy"] = [num |-> 6, den |-> 2]

\* C2: no matching seed, or every matching seed failing fetch or extraction,
\* gives None (NotFound), never a vector.
C2_NotFoundWithoutSeeds ==
    (ProfileAnswered /\ SucceededSeeds(resp.vibe) = {}) => resp.value = None

\* a vibe that has seeds, all of which were fetched and failed
C2_Witness ==
    /\ ProfileAnswered
    /\ MatchingSeeds(resp.vibe) # {}
    /\ SucceededSeeds(resp.vibe) = {}
    /\ Len(net) = Cardinality(MatchingSeeds(resp.vibe))
    /\ resp.value = None

\* -------------------------------------------------------- claims: ranking

AppleAnswered == resp.op = "apple_recommend"
SpotifyAnswered == resp.op = "recommend_tracks"
\* the ranking function returned a list
AppleRanked == AppleAnswered /\ resp.status = 200 /\ hist.search.kind = "songs"
SpotifyRanked == SpotifyAnswered /\ resp.status = 200

ReturnedIds == {resp.tracks[i].id : i \in 1..Len(resp.tracks)}

\* a song of the catalog answer that has no preview entry or an empty preview URL
LacksPreview(song) == song.previews = <<>> \/ song.previews[1].url = ""

\* C3: every track recommend_tracks_for_vibe returns carries a non-empty
\* preview URL, the one of its catalog song, and no song without a preview
\* entry or with an empty preview URL is returned.
C3_ReturnedTracksHavePreview ==
    AppleRanked =>
        /\ \A i \in 1..Len(resp.tracks) :
              /\ resp.tracks[i].preview_url # ""
              /\ \E j \in 1..Len(hist.search.data) :
                    /\ hist.search.data[j].id = resp.tracks[i].id
                    /\ ~LacksPreview(hist.search.data[j])
                    /\ hist.search.data[j].previews[1].url = resp.tracks[i].preview_url
        /\ \A j \in 1..Len(hist.search.data) :
              LacksPreview(hist.search.data[j]) => hist.search.data[j].id \notin ReturnedIds

\* a catalog answer with a song without previews, one with an empty URL and
\* one with a preview that extracts: only the last is returned
C3_Witness ==
    /\ AppleRanked
    /\ Len(hist.search.data) = 3
    /\ hist.search.data[1].previews = <<>>
    /\ hist.search.data[2].previews = <<[url |-> ""]>>
    /\ Len(resp.tracks) = 1
    /\ resp.tracks[1].id = 3
    /\ resp.tracks[1].preview_url = "preview3"

\* C4 as claimed: a ranking that returns never returns more than `limit` items,
\* whatever `limit` is (nothing at all for a limit below 1).
C4_AtMostLimitItems ==
    (AppleRanked \/ SpotifyRanked)
        => Len(resp.tracks) <= (IF resp.limit > 0 THEN resp.limit ELSE 0)

\* C5 as claimed: a ranking asked with limit <= 0 is rejected (400) before any
\* network call.
C5_NonPositiveLimitRejected ==
    ((AppleAnswered \/ SpotifyAnswered) /\ resp.limit <= 0) =>
        (resp.status = 400 /\ net = <<>>)

\* the score of the track returned at position i
ScoreGreater(i, j) ==
    IF AppleAnswered
    THEN SimGt(resp.tracks[i].similarity, resp.tracks[j].similarity)
    ELSE score(resp.tracks[i].features, Lower(resp.vibe), hist.lyrical)
             > score(resp.tracks[j].features, Lower(resp.vibe), hist.lyrical)

\* C6: in a returned ranking no track comes before one of strictly higher
\* score, and tracks of equal score keep their catalog order (ids are the
\* positions in the catalog answer).
C6_DescendingAndStable ==
    (AppleRanked \/ SpotifyRanked) =>
        \A i, j \in 1..Len(resp.tracks) :
            i < j =>
                /\ ~ScoreGreater(j, i)
                /\ ~ScoreGreater(i, j) => resp.tracks[i].id < resp.tracks[j].id

\* three scored candidates, the first scoring lowest and the other two tied:
\* returned as 2, 3, 1
C6_Witness ==
    /\ AppleRanked
    /\ Len(resp.tracks) = 3
    /\ resp.tracks[1].id = 2 /\ resp.tracks[2].id = 3 /\ resp.tracks[3].id = 1
    /\ ScoreGreater(2, 3)
    /\ ~ScoreGreater(1, 2) /\ ~ScoreGreater(2, 1)

\* C7 as claimed: every similarity computation compares a reference and a
\* candidate of the same shape (the same dimension keys).
C7_SameShapeScored ==
    AppleAnswered =>
        \A i \in 1..Len(hist.scored) : hist.scored[i].ref = hist.scored[i].extracted

\* ------------------------------------------------ claims: credential lifecycle

\* ensure_valid_token has returned to the route / has raised RetryError
Returned(p) == calls[p].pc = "returned"
RefreshFailed(p) == calls[p].pc = "raised"
\* the thread is inside ensure_valid_token
InCall(p) == calls[p].pc \in {"ensure", "refresh", "wait", "assign", "reload"}

\* the clock has reached expiry minus the safety margin
MarginReached(t, expires_at) ==
    t >= expires_at * TicksPerSecond - SafetyMargin * TicksPerSecond

\* C8: the expiry test of ensure_valid_token sends the call to the refresh
\* endpoint exactly when the clock has reached expiry minus 30 s, and returns
\* the credential untouched otherwise; the endpoint is called from nowhere
\* else, and a call sent there makes an attempt as its next step.
C8_RefreshExactlyAtMargin ==
    [][\A p \in Procs :
          /\ (calls[p].pc = "ensure" /\ calls'[p].pc # "ensure")
                => IF MarginReached(now, calls[p].user.token_expires_at)
                   THEN calls'[p].pc = "refresh"
                   ELSE /\ calls'[p].pc = "returned"
                        /\ calls'[p].outcomes = <<>>
                        /\ calls'[p].user = calls[p].user
          /\ (calls[p].pc = "refresh" /\ calls'[p].pc # "refresh")
                => Len(calls'[p].outcomes) = Len(calls[p].outcomes) + 1
          /\ (Len(calls'[p].outcomes) > Len(calls[p].outcomes))
                => calls[p].pc = "refresh"]_vars

\* at time 0 one call that found expiry = now + 10 s has refreshed, and one
\* that found expiry = now + 3600 s has returned without an attempt
C8_Witness ==
    /\ now = 0
    /\ \E p \in Procs, q \in Procs :
          /\ Returned(p) /\ calls[p].entry.token_expires_at = 10
          /\ calls[p].outcomes # <<>>
          /\ Returned(q) /\ calls[q].entry.token_expires_at = 3600
          /\ calls[q].outcomes = <<>>

C10_BoundedRetry ==
    /\ [](\A p \in Procs :
            /\ Len(calls[p].outcomes) <= RetryAttempts
            /\ \A i \in 1..(Len(calls[p].outcomes) - 1) : calls[p].outcomes[i] = "fail"
            /\ RefreshFailed(p) => calls[p].outcomes = <<"fail", "fail", "fail">>
            /\ calls[p].outcomes = <<"fail", "fail", "fail">> => RefreshFailed(p))
    /\ \A p \in Procs : InCall(p) ~> (Returned(p) \/ RefreshFailed(p))

C10_Witness ==
    \E p \in Procs :
        /\ RefreshFailed(p)
        /\ calls[p].outcomes = <<"fail", "fail", "fail">>
        /\ calls[p].writes = 0

\* C11: when the expiry test finds the credential still valid (the clock has not
\* reached expiry minus 30 s), the call returns at once: no attempt at the
\* token endpoint, no commit, the table untouched, and the credential returned
\* is the one loaded, access token and expiry unchanged.
C11_ValidBypassesRefresh ==
    /\ [][\A p \in Procs :
            (calls[p].pc = "ensure" /\ calls'[p].pc # "ensure"
                 /\ ~MarginReached(now, calls[p].user.token_expires_at))
            => /\ calls'[p].pc = "returned"
               /\ calls'[p].outcomes = <<>>
               /\ calls'[p].writes = 0
               /\ calls'[p].user = calls[p].user
               /\ store' = store /\ commits' = commits /\ issued' = issued]_vars
    /\ [](\A p \in Procs :
            (Returned(p) /\ calls[p].outcomes = <<>>)
            => /\ calls[p].writes = 0
               /\ calls[p].refreshed = None
               /\ calls[p].user = calls[p].entry)

\* a call that found the credential valid by half a second has returned it
C11_Witness ==
    \E p \in Procs :
        /\ Returned(p)
        /\ now = 1
        /\ calls[p].entry.token_expires_at = 31
        /\ calls[p].outcomes = <<>>
        /\ calls[p].user = store[calls[p].uid]
        /\ commits = 0

\* the call has refreshed: its last attempt at the token endpoint succeeded
Refreshed(p) ==
    calls[p].outcomes # <<>> /\ calls[p].outcomes[Len(calls[p].outcomes)] = "ok"

\* C12: after a successful refresh the commit writes the new access token and
\* the expiry (whole seconds of the clock at the refresh) + expires_in to the
\* table; the call has committed by the time ensure_valid_token returns, and
\* so before any Spotify API call of the request.
C12_CommittedBeforeReturn ==
    /\ [][\A p \in Procs :
            (calls[p].pc = "assign" /\ calls'[p].pc # "assign")
            => /\ calls'[p].pc = "reload"
               /\ store'[calls[p].uid].access_token = calls[p].refreshed.access_token
               /\ store'[calls[p].uid].token_expires_at =
                      (now \div TicksPerSecond)
                          + (IF "expires_in" \in DOMAIN calls[p].refreshed
                             THEN calls[p].refreshed.expires_in ELSE DefaultExpiresIn)
               /\ calls'[p].committed = store'[calls[p].uid]]_vars
    /\ [](\A p \in Procs :
            /\ (Refreshed(p) /\ calls[p].pc \in {"returned", "responded", "failed"})
                   => calls[p].writes = 1
            /\ (Refreshed(p) /\ calls[p].writes = 0) => calls[p].api = <<>>
            /\ calls[p].api # <<>> => calls[p].pc \in {"responded", "failed"})

\* a /playlist request that refreshed on the second attempt, one second after
\* time 0, has made its API calls; the table holds the row it committed
C12_Witness ==
    \E p \in Procs :
        /\ calls[p].pc = "responded"
        /\ calls[p].outcomes = <<"fail", "ok">>
        /\ calls[p].api # <<>>
        /\ calls[p].writes = 1
        /\ store[calls[p].uid] = calls[p].committed
        /\ calls[p].committed.access_token = calls[p].refreshed.access_token
        /\ calls[p].committed.token_expires_at = 1 + DefaultExpiresIn

\* C13: a request has made no Spotify API call while it is in get_user_token or
\* ensure_valid_token; the API calls come in one step after ensure_valid_token
\* has returned, leave the returned credential as it is, and each carries the
\* access token of that credential.
C13_ApiCallsAfterEnsure ==
    /\ [][\A p \in Procs :
            calls'[p].api # calls[p].api
            => \/ calls'[p].pc = "idle"
               \/ /\ calls[p].pc = "returned"
                  /\ calls[p].api = <<>>
                  /\ calls'[p].user = calls[p].user
                  /\ \A i \in 1..Len(calls'[p].api) :
                         calls'[p].api[i].token = calls[p].user.access_token]_vars
    /\ [](\A p \in Procs :
            /\ calls[p].pc \in {"idle", "http404", "http500", "ensure", "refresh", "wait",
                                "assign", "reload", "returned", "raised"}
                   => calls[p].api = <<>>
            /\ \A i \in 1..Len(calls[p].api) :
                   /\ calls[p].api[i].token = calls[p].user.access_token
                   /\ Refreshed(p) => calls[p].api[i].token = calls[p].committed.access_token
            /\ calls[p].route = "recommend" => calls[p].api = <<>>)

\* a /recommend-and-create request that had to refresh has made its five API
\* calls, all with the new token
C13_Witness ==
    \E p \in Procs :
        /\ calls[p].pc = "responded"
        /\ calls[p].route = "recommend_and_create"
        /\ Refreshed(p)
        /\ Len(calls[p].api) = 5
        /\ \A i \in 1..5 : /\ calls[p].api[i].token = calls[p].refreshed.access_token
                           /\ calls[p].api[i].token # calls[p].entry.access_token

\* ------------------------------------------------ claims: partial results

\* a catalog song whose preview can be fetched and yields features
Extractable(song) ==
    /\ ~LacksPreview(song)
    /\ song.audio.kind = "audio"
    /\ song.audio.decodable
    /\ song.audio.size >= SampleRate

ExtractableIds ==
    {hist.search.data[j].id :
        j \in {x \in 1..Len(hist.search.data) : Extractable(hist.search.data[x])}}

C15_NotFoundFailsRequest ==
    (AppleAnswered /\ resp.limit > 0 /\ SucceededSeeds(resp.vibe) = {})
    => resp.status # 200

\* ------------------------------------------------ claims: seed-feature cache

\* the seeds of `vibe` that have no cache entry
UncachedSeeds(vibe) ==
    {i \in MatchingSeeds(vibe) : featureCache[studentTracks[i].id] = None}

\* C16: a cache entry, once written, never changes or disappears; a request
\* fetches the audio of exactly the seeds of its vibe that have no entry, so a
\* cached seed is never fetched or decoded again, and its cached vector goes
\* into the profile (a vibe with a cached seed always has a profile).
C16_CachedSeedNeverRefetched ==
    [][/\ \A id \in SeedIds :
             featureCache[id] # None => featureCache'[id] = featureCache[id]
       /\ (resp = NoResp /\ resp' # NoResp
              /\ resp'.op = "get_reference_features_for_vibe")
          => /\ Len(net') = Cardinality(UncachedSeeds(resp'.vibe))
             /\ UncachedSeeds(resp'.vibe) # MatchingSeeds(resp'.vibe)
                    => resp'.value # None]_vars

\* a later request for a vibe whose two seeds are both cached: no fetch, and
\* the profile is the mean of the two cached vectors
C16_Witness ==
    /\ ProfileAnswered
    /\ Cardinality(MatchingSeeds(resp.vibe)) = 2
    /\ \A i \in MatchingSeeds(resp.vibe) : hist.cacheBefore[studentTracks[i].id] # None
    /\ net = <<>>
    /\ resp.value # None
    /\ resp.value["tempo"] = [num |-> 18, den |-> 2]
    /\ featureCache = hist.cacheBefore

\* the seeds of `vibe` that had a cache entry when the request arrived
CachedBefore(vibe) ==
    {i \in MatchingSeeds(vibe) : hist.cacheBefore[studentTracks[i].id] # None}

RECURSIVE SumCachedBefore(_, _)
SumCachedBefore(S, k) ==
    IF S = {} THEN 0
    ELSE LET i == CHOOSE x \in S : TRUE
         IN  hist.cacheBefore[studentTracks[i].id][k] + SumCachedBefore(S \ {i}, k)

\* C17 as claimed: the profile of a vibe is built once and cached by vibe label.
\* A vibe has a seed in the cache only after a successful build of its
\* profile, which was the mean of the vectors then cached for its seeds; a
\* later request for that vibe answers that same mean and fetches nothing,
\* whatever the seeds that failed before would yield now.
C17_ProfileCachedPerVibe ==
    (ProfileAnswered /\ CachedBefore(resp.vibe) # {})
    => /\ net = <<>>
       /\ resp.value # None
       /\ \A k \in RefKeys :
             resp.value[k].num * Cardinality(CachedBefore(resp.vibe))
                 = SumCachedBefore(CachedBefore(resp.vibe), k) * resp.value[k].den

\* ------------------------------------------------ claims: concurrency

\* C18 as claimed: two concurrent calls for the same user that both found the
\* loaded credential past the margin (they loaded the same row, so neither saw
\* the other's commit) and both refreshed, both proceed with the access token
\* that is in the table.
C18_ConcurrentCallsAgree ==
    \A p \in Procs, q \in Procs :
        (/\ p # q
         /\ Returned(p) /\ Returned(q)
         /\ Refreshed(p) /\ Refreshed(q)
         /\ calls[p].uid = calls[q].uid
         /\ calls[p].entry = calls[q].entry)
        => /\ calls[p].user.access_token = store[calls[p].uid].access_token
           /\ calls[q].user.access_token = store[calls[q].uid].access_token

\* the vector the extractor gives for the file behind the track's audio_url
VectorOfTrack(track_id) ==
    student_extract_features_from_audio_bytes(studentTracks[track_id].audio)

\* C19: the cache changes only in the write of a call that found no entry for
\* its track, the write touches that track's entry alone, and whatever the
\* interleaving an entry is the vector extracted from its track's audio, so a
\* second racing write stores the value already there.
C19_CacheWritesIdempotent ==
    /\ [][featureCache' # featureCache
            => \E w \in Procs :
                  /\ fetchers[w].pc = "store" /\ fetchers'[w].pc = "done"
                  /\ fetchers[w].miss
                  /\ featureCache'[fetchers[w].track_id] = VectorOfTrack(fetchers[w].track_id)
                  /\ \A i \in SeedIds \ {fetchers[w].track_id} :
                         featureCache'[i] = featureCache[i]]_vars
    /\ [](\A i \in SeedIds :
            featureCache[i] # None => featureCache[i] = VectorOfTrack(i))
    /\ [](\A w \in Procs :
            /\ fetchers[w].wrote
                  => /\ fetchers[w].miss
                     /\ featureCache[fetchers[w].track_id] = fetchers[w].value
            /\ (fetchers[w].pc = "done" /\ ~fetchers[w].miss)
                  => fetchers[w].value = featureCache[fetchers[w].track_id])

\* both threads missed track 1, both fetched it and both wrote; another
\* track's entry, written before, is still there
C19_Witness ==
    /\ \A w \in Procs :
          /\ fetchers[w].pc = "done"
          /\ fetchers[w].track_id = 1
          /\ fetchers[w].wrote
    /\ featureCache[1] = VectorOfTrack(1)
    /\ featureCache[2] = VectorOfTrack(2)

\* the similarity dot / sqrt(nn) is 1.0
SimIsOne(s) ==
    /\ s.dot.num > 0
    /\ RMul(s.dot, s.dot).num * s.nn.den = s.nn.num * RMul(s.dot, s.dot).den

\* the similarity is 0.0
SimIsZero(s) == s.dot.num = 0

NonZero(vec) == \E k \in DOMAIN vec : vec[k] # 0

\* C20 as stated: the similarity of every feature vector with itself is 1.0.
C20_SelfSimilarityIsOne ==
    resp.op = "cosine_similarity" => SimIsOne(resp.similarity)

\* C20, amended: the similarity of a feature vector with itself is 1.0 when
\* the vector has a non-zero component, and 0.0 when every component is zero.
C20_SelfSimilarityOfNonZero ==
    resp.op = "cosine_similarity"
        => /\ NonZero(resp.vec) => SimIsOne(resp.similarity)
           /\ ~NonZero(resp.vec) => SimIsZero(resp.similarity)

\* a five-key vector with a zero and a non-zero component was scored
C20_Witness ==
    /\ resp.op = "cosine_similarity"
    /\ DOMAIN resp.vec = RefKeys
    /\ resp.vec.zcr = 0
    /\ resp.vec.tempo > 0
    /\ SimIsOne(resp.similarity)

\* two similarities dot / sqrt(nn) are the same number
SimEq(s, t) == ~SimGt(s, t) /\ ~SimGt(t, s)

\* C21: the score of two dicts is the score of the two cut down to the keys
\* both hold; it is 0 when no key is shared or when either dict is zero on
\* every shared key; and the divisor sqrt(norm_a * norm_b) is never zero.
C21_SharedKeysOnly ==
    resp.op = "cosine_pair"
        => /\ SimEq(resp.similarity, hist.restricted)
           /\ hist.shared = {} => SimIsZero(resp.similarity)
           /\ (\/ \A k \in hist.shared : resp.vec_a[k] = 0
               \/ \A k \in hist.shared : resp.vec_b[k] = 0)
                  => SimIsZero(resp.similarity)
           /\ resp.similarity.nn.num > 0 /\ resp.similarity.nn.den > 0

\* vec_a holds a non-zero key vec_b lacks, the two share a key on which both
\* are non-zero, and the score is not 0
C21_Witness ==
    /\ resp.op = "cosine_pair"
    /\ \E k \in DOMAIN resp.vec_a \ DOMAIN resp.vec_b : resp.vec_a[k] # 0
    /\ \E k \in hist.shared : resp.vec_a[k] # 0 /\ resp.vec_b[k] # 0
    /\ ~SimIsZero(resp.similarity)

\* ---------------------------------------------------- claims: extraction

Extracted == resp.op \in {"extract_candidate", "extract_seed"}

\* the bytes do not decode, or decode to less than a second of samples
Unusable(clip) == ~clip.decodable \/ clip.size < SampleRate

\* C22 as claimed: bytes that do not decode, or that decode to less than one
\* second of samples, make either extractor return absent: no exception and
\* no vector.
C22_FailureIsAbsentNotRaised ==
    (Extracted /\ hist.disk = "written" /\ Unusable(hist.clip))
        => resp.value = None

\* C24 as claimed: whichever way the candidate extractor leaves (a vector,
\* absent, or an exception at any step, the write of the bytes included), the
\* temporary file it created is gone.
C24_TempFileRemoved ==
    resp.op = "extract_candidate" => ~resp.tmp_exists

\* the dimensions of the 6-key semantic shape
SemanticKeys ==
    {"tempo", "energy", "valence", "acousticness", "danceability", "instrumentalness"}

\* C23 as claimed: every cached seed entry is absent or a whole raw-spectral
\* vector, and the features attached to every returned candidate are a whole
\* vector of one of the two shapes, never part of one.
C23_AllOrNothing ==
    AppleRanked =>
        /\ \A id \in SeedIds :
              featureCache[id] # None => DOMAIN featureCache[id] = RefKeys
        /\ \A i \in 1..Len(resp.tracks) :
              DOMAIN resp.tracks[i].features \in {RefKeys, SemanticKeys}

\* ------------------------------------------------ claims: determinism

\* the reference vector the answered request scored against
ReferenceOfRequest ==
    get_reference_features_for_vibe(resp.vibe, hist.cacheBefore, hist.fetch).value

\* the score of a catalog song whose preview yields features
ScoreOfSong(song) ==
    LET feats == extract_features_from_audio_bytes(song.audio)
    IN  cosine_similarity(ReferenceOfRequest,
                          [k \in {x \in DOMAIN feats : x \in DOMAIN ReferenceOfRequest}
                              |-> feats[k]])

\* a (score s, catalog position m) ranks before b (score t, position n)
RanksBefore(s, m, t, n) == SimGt(s, t) \/ (~SimGt(t, s) /\ m < n)

\* C25: the ranking returned is fixed by the reference vector, the catalog
\* list and what each preview yields: every returned track carries the score
\* of its own preview against the reference, the list runs by score descending
\* with ties in catalog position, and every scored candidate left out ranks
\* after every one returned.  Nothing else (the order in which candidates were
\* scored) has a say.
C25_RankingDetermined ==
    AppleRanked =>
        /\ \A i \in 1..Len(resp.tracks) :
              \E j \in 1..Len(hist.search.data) :
                  /\ hist.search.data[j].id = resp.tracks[i].id
                  /\ Extractable(hist.search.data[j])
                  /\ SimEq(resp.tracks[i].similarity, ScoreOfSong(hist.search.data[j]))
        /\ \A i, j \in 1..Len(resp.tracks) :
              i < j => RanksBefore(resp.tracks[i].similarity, resp.tracks[i].id,
                                   resp.tracks[j].similarity, resp.tracks[j].id)
        /\ \A i \in 1..Len(resp.tracks), j \in 1..Len(hist.search.data) :
              (Extractable(hist.search.data[j]) /\ hist.search.data[j].id \notin ReturnedIds)
                  => RanksBefore(resp.tracks[i].similarity, resp.tracks[i].id,
                                 ScoreOfSong(hist.search.data[j]), hist.search.data[j].id)

\* three candidates with features, the first and the third with the same
\* audio, two asked for: of the tied pair the first is returned, the third not
C25_Witness ==
    /\ AppleRanked
    /\ Len(hist.search.data) = 3
    /\ \A j \in 1..3 : Extractable(hist.search.data[j])
    /\ hist.search.data[1].audio = hist.search.data[3].audio
    /\ hist.search.data[2].audio # hist.search.data[1].audio
    /\ Len(resp.tracks) = 2
    /\ ReturnedIds = {1, 2}

\* ------------------------------------------- claims: credential, continued

\* C26: a call whose attempts have all failed leaves by RetryError with the
\* credential it loaded, token and expiry untouched, and has written nothing:
\* the table is changed only by the commit of a call whose last attempt
\* succeeded, and no step that takes a call to RetryError changes the table.
C26_FailedRefreshLeavesCredential ==
    /\ [](\A p \in Procs :
            RefreshFailed(p)
            => /\ \A i \in 1..Len(calls[p].outcomes) : calls[p].outcomes[i] = "fail"
               /\ calls[p].user = calls[p].entry
               /\ calls[p].refreshed = None
               /\ calls[p].writes = 0
               /\ calls[p].committed = None)
    /\ [][/\ store' # store
             => \E p \in Procs :
                   /\ calls[p].pc = "assign"
                   /\ calls'[p].pc = "reload"
                   /\ Refreshed(p)
          /\ \A p \in Procs :
                (calls[p].pc # "raised" /\ calls'[p].pc = "raised")
                => store' = store /\ commits' = commits]_vars

\* a call for a credential past the margin has failed three times; the table
\* still holds the row it loaded
C26_Witness ==
    \E p \in Procs :
        /\ RefreshFailed(p)
        /\ calls[p].outcomes = <<"fail", "fail", "fail">>
        /\ calls[p].entry.token_expires_at = 10
        /\ store[calls[p].uid] = calls[p].entry
        /\ calls[p].user = calls[p].entry
        /\ commits = 0

\* the lifetime the call's successful attempt reported
ReportedLifetime(p) == DictGet(calls[p].refreshed, "expires_in", DefaultExpiresIn)

\* the expiry lies more than the safety margin after clock reading t
BeyondMargin(t, expires_at) ==
    t < expires_at * TicksPerSecond - SafetyMargin * TicksPerSecond

\* C27 as claimed: whatever lifetime the endpoint reported, the credential a
\* refreshing call returns is valid with respect to the safety margin.
C27_RefreshedIsValid ==
    \A p \in Procs :
        (Returned(p) /\ Refreshed(p)) => BeyondMargin(now, calls[p].user.token_expires_at)

\* C27, amended: when the endpoint reports a lifetime above 30 s (or none, the
\* default of 3600 s standing in), the expiry committed lies more than 30 s
\* after the refresh time, so a call testing the credential at that time does
\* not refresh; with a reported lifetime of 30 s or less the committed
\* credential is already within the margin.
C27_RefreshedIsValidIfLongLived ==
    [][\A p \in Procs :
          (calls[p].pc = "assign" /\ calls'[p].pc = "reload")
          => /\ ReportedLifetime(p) > SafetyMargin
                   => /\ BeyondMargin(now, store'[calls[p].uid].token_expires_at)
                      /\ TokenStillValid(now, calls'[p].user.token_expires_at)
             /\ ReportedLifetime(p) <= SafetyMargin
                   => ~BeyondMargin(now, store'[calls[p].uid].token_expires_at)]_vars

\* a call refreshed half a second into a second with a reported lifetime of
\* 31 s and has returned a credential that passes the expiry test
C27_Witness ==
    \E p \in Procs :
        /\ Returned(p) /\ Refreshed(p)
        /\ "expires_in" \in DOMAIN calls[p].refreshed
        /\ calls[p].refreshed.expires_in = SafetyMargin + 1
        /\ now = 1
        /\ calls[p].user.token_expires_at = SafetyMargin + 1
        /\ TokenStillValid(now, calls[p].user.token_expires_at)

\* the columns of a credential that a refresh has no business with
Identity(row) == <<row.spotify_user_id, row.refresh_token, row.token_scope>>

\* C28: no step changes the user identity, the refresh token or the scope of
\* a stored credential, or adds or removes a row; and the credential a call
\* holds keeps, on every path, the identity, refresh token and scope of the
\* row it loaded.
C28_RefreshRewritesTokenAndExpiryOnly ==
    /\ [][/\ DOMAIN store' = DOMAIN store
          /\ \A u \in DOMAIN store : Identity(store'[u]) = Identity(store[u])]_vars
    /\ [](\A p \in Procs :
            calls[p].entry # None
            => /\ Identity(calls[p].user) = Identity(calls[p].entry)
               /\ calls[p].user.spotify_user_id = calls[p].uid
               /\ calls[p].committed # None
                     => Identity(calls[p].committed) = Identity(calls[p].entry))

\* a call has refreshed and returned: the stored row has a new token and a new
\* expiry under the same user, refresh token and scope
C28_Witness ==
    \E p \in Procs :
        /\ Returned(p) /\ Refreshed(p)
        /\ store[calls[p].uid].access_token # calls[p].entry.access_token
        /\ store[calls[p].uid].token_expires_at # calls[p].entry.token_expires_at
        /\ Identity(store[calls[p].uid]) = Identity(calls[p].entry)
        /\ DOMAIN store = Users

\* the request names a user the table has no row for
UnknownUser(p) == calls[p].pc # "idle" /\ calls[p].uid \notin DOMAIN store

\* C29 as claimed: on every authorized route a request naming a user without
\* a stored credential ends in the 404 outcome, with no attempt at the token
\* endpoint and no Spotify API call.
C29_UnknownUserNotAuthorized ==
    \A p \in Procs :
        UnknownUser(p)
        => /\ calls[p].pc = "http404"
           /\ calls[p].outcomes = <<>>
           /\ calls[p].api = <<>>

\* ------------------------------------------------ claims: Spotify filter

\* C30: every track recommend_tracks returns carries the audio features
\* /audio-features holds for its id, and none is returned without; with
\* lyrical set no returned track has instrumentalness above 0.6, without it
\* none has instrumentalness below 0.7.
C30_FilteredByInstrumentalness ==
    SpotifyRanked =>
        \A i \in 1..Len(resp.tracks) :
            /\ Truthy(resp.tracks[i].features)
            /\ \E j \in 1..Len(hist.reco.data) :
                  /\ hist.reco.data[j].id = resp.tracks[i].id
                  /\ hist.reco.data[j].feat = resp.tracks[i].features
            /\ hist.lyrical => resp.tracks[i].features.instrumentalness <= 60
            /\ ~hist.lyrical => resp.tracks[i].features.instrumentalness >= 70

\* asked without lyrics for three tracks, one without features, one at 0.6
\* and one at 0.7: the last alone is returned
C30_Witness ==
    /\ SpotifyRanked
    /\ ~hist.lyrical
    /\ Len(hist.reco.data) = 3
    /\ hist.reco.data[1].feat = None
    /\ hist.reco.data[2].feat = FeatLyricalLoud
    /\ hist.reco.data[3].feat = FeatHalfInstrumental
    /\ Len(resp.tracks) = 1
    /\ resp.tracks[1].id = 3
====
